---- MODULE Spec2Model ----
(***************************************************************************)
(* A model of the plugin host of asset-manager: the sandboxed Lua session  *)
(* (core/src/plugin/loader.rs), the plugin registry                        *)
(* (core/src/plugin/manager.rs) and the plugin directory it scans.         *)
(* The disk belongs to the environment: every call that reads it is given  *)
(* what it finds there, and what it creates there is part of its result.   *)
(*                                                                         *)
(* Every public operation of PluginManager is one action.  The action      *)
(* records, in lastOp, what the call returned, the registry it started     *)
(* from and the guest calls it made (in order, each with the registry as   *)
(* it stood when the call was made), so that the properties of one call    *)
(* are state predicates.                                                   *)
(***************************************************************************)
EXTENDS Integers, Sequences, FiniteSets, TLC

VARIABLES
    plugins,      \* PluginManager.plugins: name -> (PluginInfo, PluginLoader)
    nextSid,      \* identity of the next interpreter Lua::new() creates
    lastOp,       \* the last registry call: arguments, result, guest calls
    db,           \* AppState.db: the rows of table assets, by id
    dbLock,       \* the holder of the Mutex around AppState.db
    pmLock,       \* the holder of the Mutex around AppState.plugin_manager
    cmd,          \* per thread: the command it runs and where it stands in it
    nextId        \* identity of the next id Uuid::new_v4() draws

vars == <<plugins, nextSid, lastOp>>

\* The state of the application around the registry.
cvars == <<db, dbLock, pmLock, cmd, nextId>>

allvars == <<plugins, nextSid, lastOp, db, dbLock, pmLock, cmd, nextId>>

\* Body applied to the value of v, which is computed once.
With(v, Body(_)) == CHOOSE y \in {Body(x) : x \in {v}} : TRUE

(***************************************************************************)
(* Bounds                                                                  *)
(***************************************************************************)
\* Interpreters created in one behaviour (Lua::new() calls).
MaxSid == 3

(***************************************************************************)
(* The plugin directory and the entry scripts found in it                  *)
(***************************************************************************)
Dirs == {"d1", "d2"}

NoField == [t |-> "nil", v |-> ""]
Str(s) == [t |-> "string", v |-> s]
Num(s) == [t |-> "number", v |-> s]
Bool(s) == [t |-> "boolean", v |-> s]

HookNames ==
    {"on_load", "on_unload", "on_asset_created", "on_asset_updated",
     "on_asset_deleted", "on_app_started", "on_app_closing", "on_ping"}

\* What a guest function does when called: returns, raises, or tries to open
\* a file through the io library it finds in package.loaded.
Behaviours == {"ok", "raise", "probe"}

NoHooks == [h \in {} |-> "ok"]
AllHooks(b) == [h \in HookNames |-> b]

\* The entry scripts (init.lua) of the model.  eval is what evaluating the
\* chunk yields; fields are the entries of the returned table; funcs are the
\* global functions the chunk defines; members are the functions it stores
\* only as fields of the returned table; gindex is what the chunk does to
\* the global table with setmetatable: nothing ("none"), or an __index
\* function that returns nil ("nil") or raises ("raise").
Scripts ==
    [ alpha    |-> [eval |-> "table", name |-> Str("A"), version |-> Str("1.0"),
                    author |-> Str("ann"), description |-> NoField,
                    funcs |-> AllHooks("ok"), members |-> {}, gindex |-> "none"],
      alphaBad |-> [eval |-> "table", name |-> Str("A"), version |-> Str("2.0"),
                    author |-> NoField, description |-> Str("second"),
                    funcs |-> [h \in HookNames \ {"on_app_closing"} |-> "raise"],
                    members |-> {}, gindex |-> "nil"],
      beta     |-> [eval |-> "table", name |-> Str("B"), version |-> Str("1.0"),
                    author |-> Bool("true"), description |-> NoField,
                    funcs |-> NoHooks, members |-> {"on_load", "on_asset_created"},
                    gindex |-> "none"],
      anon     |-> [eval |-> "table", name |-> NoField, version |-> Num("7"),
                    author |-> Num("7"), description |-> NoField,
                    funcs |-> [h \in {"on_load", "on_asset_created"} |-> "probe"],
                    members |-> {}, gindex |-> "raise"],
      broken   |-> [eval |-> "raise", name |-> Str("A"), version |-> Str("1.0"),
                    author |-> NoField, description |-> NoField,
                    funcs |-> AllHooks("ok"), members |-> {}, gindex |-> "none"],
      scalar   |-> [eval |-> "value", name |-> NoField, version |-> NoField,
                    author |-> NoField, description |-> NoField,
                    funcs |-> AllHooks("ok"), members |-> {}, gindex |-> "none"] ]

ScriptIds == DOMAIN Scripts

\* A child of plugins_dir: missing, a plain file, a directory without
\* init.lua, a directory whose init.lua cannot be read as text, or a
\* directory holding one of the entry scripts.
DirContents == {"absent", "file", "empty", "unreadable"} \cup ScriptIds

\* What the model lets each child hold.  Both can hold a plugin named A.
DirChoices ==
    [d1 |-> {"absent", "file", "empty", "unreadable", "broken", "scalar", "alpha", "beta"},
     d2 |-> {"absent", "alphaBad", "anon"}]

IsDir(c) == c \notin {"absent", "file"}

(***************************************************************************)
(* The interpreter: Lua values, the global table and package.loaded        *)
(***************************************************************************)
Nil == [k |-> "nil", o |-> "", id |-> ""]
Lib(n) == [k |-> "table", o |-> "std", id |-> n]
StdFn(n) == [k |-> "function", o |-> "std", id |-> n]
HostFn(n) == [k |-> "function", o |-> "host", id |-> n]
GuestFn(b) == [k |-> "function", o |-> "guest", id |-> b]

StdLibs == {"os", "io", "package"}
StdFns == {"loadfile", "dofile", "require", "print"}
GlobalNames == StdLibs \cup StdFns \cup {"log"} \cup HookNames

\* Lua::new(): the standard libraries are opened; each library is stored in
\* the global table and in package.loaded.  The global table has no
\* metatable.  returned names the functions held only by the table the
\* entry script returned, once it has been evaluated.
LuaNew(sid) ==
    [ sid    |-> sid,
      gl     |-> [g \in GlobalNames |->
                     IF g \in StdLibs THEN Lib(g)
                     ELSE IF g \in StdFns THEN StdFn(g)
                     ELSE Nil],
      loaded |-> [l \in StdLibs |-> Lib(l)],
      gindex |-> "none",
      returned |-> {} ]

\* PluginLoader::setup_sandbox: four globals are set to nil, log and print
\* are (re)bound to host functions.
setup_sandbox(lua) ==
    [lua EXCEPT !.gl["os"] = Nil,
                !.gl["io"] = Nil,
                !.gl["loadfile"] = Nil,
                !.gl["dofile"] = Nil,
                !.gl["log"] = HostFn("log"),
                !.gl["print"] = HostFn("print")]

\* A loader that hands out one interpreter kept for all plugins.
PluginLoaderShared(sid) == setup_sandbox(LuaNew(1))

\* PluginLoader::new
PluginLoaderNew(sid) == setup_sandbox(LuaNew(sid))

\* What guest code running in the session can get hold of: the values of its
\* globals, and the entries of package.loaded through the package table or
\* through require(name).
Reachable(lua) ==
    {lua.gl[g] : g \in GlobalNames}
    \cup (IF lua.gl["package"] = Lib("package") \/ lua.gl["require"] = StdFn("require")
          THEN {lua.loaded[l] : l \in StdLibs}
          ELSE {})

\* The capabilities the sandbox is meant to take away.
Dangerous == {Lib("os"), Lib("io"), StdFn("loadfile"), StdFn("dofile")}

(***************************************************************************)
(* PluginLoader (core/src/plugin/loader.rs)                                *)
(***************************************************************************)
None == [some |-> FALSE, v |-> ""]
Some(x) == [some |-> TRUE, v |-> x]

NoInfo ==
    [name |-> "", version |-> "", author |-> None, description |-> None,
     path |-> "", enabled |-> FALSE]

\* Table::get::<String>(key): a string is taken as it is, a number is
\* converted to its text, every other value (a missing field is nil) is a
\* conversion error.
GetString(field) ==
    IF field.t \in {"string", "number"}
    THEN [ok |-> TRUE, v |-> field.v]
    ELSE [ok |-> FALSE, v |-> ""]

unwrap_or_else(r, default) == IF r.ok THEN r.v ELSE default

ok(r) == IF r.ok THEN Some(r.v) ELSE None

\* The globals after a chunk has bound the global functions it defines.
Bind(gl, funcs) ==
    [g \in GlobalNames |-> IF g \in DOMAIN funcs THEN GuestFn(funcs[g]) ELSE gl[g]]

\* Evaluating the chunk in the session.
EvalChunk(lua, script) ==
    [lua EXCEPT !.gl = Bind(@, script.funcs), !.gindex = script.gindex,
                !.returned = script.members]

\* A load_plugin_code that hands on the interpreter's error as it is.
load_plugin_code_unmapped(lua, code, plugin_dir) ==
    IF Scripts[code].eval # "table"
    THEN [res |-> "LuaError", info |-> NoInfo, lua |-> lua]
    ELSE [res  |-> "Ok",
          info |-> [name        |-> unwrap_or_else(GetString(Scripts[code].name), "Unknown"),
                    version     |-> unwrap_or_else(GetString(Scripts[code].version), "0.0.0"),
                    author      |-> ok(GetString(Scripts[code].author)),
                    description |-> ok(GetString(Scripts[code].description)),
                    path        |-> plugin_dir,
                    enabled     |-> TRUE],
          lua  |-> EvalChunk(lua, Scripts[code])]

\* A load_plugin_code that reads the version under a key the table lacks.
load_plugin_code_no_version(lua, code, plugin_dir) ==
    IF Scripts[code].eval # "table"
    THEN [res |-> "LoadError", info |-> NoInfo, lua |-> lua]
    ELSE [res  |-> "Ok",
          info |-> [name        |-> unwrap_or_else(GetString(Scripts[code].name), "Unknown"),
                    version     |-> unwrap_or_else(GetString(NoField), "0.0.0"),
                    author      |-> ok(GetString(Scripts[code].author)),
                    description |-> ok(GetString(Scripts[code].description)),
                    path        |-> plugin_dir,
                    enabled     |-> TRUE],
          lua  |-> EvalChunk(lua, Scripts[code])]

\* PluginLoader::load_plugin_code
load_plugin_code(lua, code, plugin_dir) ==
    LET script == Scripts[code] IN
    IF script.eval # "table"
    THEN [res |-> "LoadError", info |-> NoInfo, lua |-> lua]
    ELSE [res  |-> "Ok",
          info |-> [name        |-> unwrap_or_else(GetString(script.name), "Unknown"),
                    version     |-> unwrap_or_else(GetString(script.version), "0.0.0"),
                    author      |-> ok(GetString(script.author)),
                    description |-> ok(GetString(script.description)),
                    path        |-> plugin_dir,
                    enabled     |-> TRUE],
          lua  |-> EvalChunk(lua, script)]

\* A load_from_dir that reads init.lua without looking for it first.
load_from_dir_unchecked(lua, plugin_dir, content) ==
    IF content \in {"absent", "file", "empty", "unreadable"}
    THEN [res |-> "IoError", info |-> NoInfo, lua |-> lua]
    ELSE load_plugin_code(lua, content, plugin_dir)

\* PluginLoader::load_from_dir; content is what the disk holds at plugin_dir.
load_from_dir(lua, plugin_dir, content) ==
    IF content \in {"absent", "file", "empty"}
    THEN [res |-> "NotFound", info |-> NoInfo, lua |-> lua]
    ELSE IF content = "unreadable"
    THEN [res |-> "IoError", info |-> NoInfo, lua |-> lua]
    ELSE load_plugin_code(lua, content, plugin_dir)

\* Running a function value inside the session.
Invoke(lua, f) ==
    IF f.o # "guest" \/ f.id = "ok" THEN "Ok"
    ELSE IF f.id = "raise" THEN "LuaError"
    ELSE IF Lib("io") \in Reachable(lua) THEN "Ok" ELSE "LuaError"

\* The registry as a guest call finds it: which interpreter each name has.
RegOf(pl) == [n \in DOMAIN pl |-> pl[n].loader.sid]

\* globals.get::<Function>(func_name): the value stored under the name, or,
\* when there is none and the global table has an __index metamethod, what
\* the metamethod yields; anything but a function is an error.  meta says
\* whether the metamethod (guest code) ran, raised whether it raised.
GlobalsGet(lua, func_name) ==
    LET raw == IF func_name \in GlobalNames THEN lua.gl[func_name] ELSE Nil IN
    IF raw.k = "function"
    THEN [ok |-> TRUE, f |-> raw, meta |-> FALSE, raised |-> FALSE]
    ELSE [ok |-> FALSE, f |-> Nil,
          meta   |-> (raw = Nil /\ lua.gindex # "none"),
          raised |-> (raw = Nil /\ lua.gindex = "raise")]

\* A call_function that hands on the error of a failed lookup.
call_function_propagating(lua, func_name, args, reg) ==
    With(GlobalsGet(lua, func_name), LAMBDA g :
        IF g.ok
        THEN [sid |-> lua.sid, func |-> func_name, args |-> args, ran |-> TRUE,
              res |-> Invoke(lua, g.f),
              escaped |-> (g.f.o = "guest" /\ g.f.id = "probe" /\ Invoke(lua, g.f) = "Ok"),
              meta |-> g.meta, reg |-> reg]
        ELSE [sid |-> lua.sid, func |-> func_name, args |-> args, ran |-> FALSE,
              res |-> IF g.raised THEN "LuaError" ELSE "NotFound",
              escaped |-> FALSE, meta |-> g.meta, reg |-> reg])

\* PluginLoader::call_function, as the record of one call: the interpreter,
\* the name looked up, the arguments, whether the function found ran, the
\* result, whether the guest opened a file, whether the lookup ran a
\* metamethod, and the registry at that moment.
call_function(lua, func_name, args, reg) ==
    With(GlobalsGet(lua, func_name), LAMBDA g :
        IF g.ok
        THEN [sid |-> lua.sid, func |-> func_name, args |-> args, ran |-> TRUE,
              res |-> Invoke(lua, g.f),
              escaped |-> (g.f.o = "guest" /\ g.f.id = "probe" /\ Invoke(lua, g.f) = "Ok"),
              meta |-> g.meta, reg |-> reg]
        ELSE [sid |-> lua.sid, func |-> func_name, args |-> args, ran |-> FALSE,
              res |-> "NotFound", escaped |-> FALSE, meta |-> g.meta, reg |-> reg])

(***************************************************************************)
(* PluginEvent (core/src/plugin/mod.rs) and the payload encoding           *)
(***************************************************************************)
NoAsset == [id |-> "", name |-> ""]
Assets == {[id |-> "u1", name |-> "cash"]}
AssetIds == {"u1"}
CustomNames == {"ping", "load", "unload", "asset_created"}

\* serde_json::Value, as far as the model needs it.
JsonNull == [t |-> "null", v |-> "null"]
JsonNumber(n) == [t |-> "number", v |-> n]
JsonText(x) == [t |-> "string", v |-> x]

AssetCreated(a) == [kind |-> "AssetCreated", asset |-> a, id |-> "", name |-> "", data |-> JsonNull]
AssetUpdated(a) == [kind |-> "AssetUpdated", asset |-> a, id |-> "", name |-> "", data |-> JsonNull]
AssetDeleted(id) == [kind |-> "AssetDeleted", asset |-> NoAsset, id |-> id, name |-> "", data |-> JsonNull]
AppStarted == [kind |-> "AppStarted", asset |-> NoAsset, id |-> "", name |-> "", data |-> JsonNull]
AppClosing == [kind |-> "AppClosing", asset |-> NoAsset, id |-> "", name |-> "", data |-> JsonNull]
Custom(n, d) == [kind |-> "Custom", asset |-> NoAsset, id |-> "", name |-> n, data |-> d]
NoEvent == [kind |-> "", asset |-> NoAsset, id |-> "", name |-> "", data |-> JsonNull]

Events ==
    {AssetCreated(a) : a \in Assets} \cup {AssetUpdated(a) : a \in Assets}
    \cup {AssetDeleted(id) : id \in AssetIds} \cup {AppStarted, AppClosing}
    \cup {Custom("ping", JsonNumber("1")), Custom("load", JsonText("x")),
          Custom("unload", JsonNull), Custom("asset_created", JsonNull)}

\* serde_json::to_string of a string: the text between double quotes.
JsonString(s) == "\"" \o s \o "\""

\* serde_json::to_string of a serde_json::Value.
JsonValue(d) == IF d.t = "string" THEN JsonString(d.v) ELSE d.v

\* serde_json::to_string of an Asset: an object of its fields.
JsonAsset(a) ==
    "{\"id\":" \o JsonString(a.id) \o ",\"name\":" \o JsonString(a.name) \o "}"

(***************************************************************************)
(* PluginManager (core/src/plugin/manager.rs)                              *)
(***************************************************************************)
Perms(S) ==
    {f \in [1..Cardinality(S) -> S] : \A x \in S : \E i \in DOMAIN f : f[i] = x}

NoPlugins == [n \in {} |-> 0]

\* HashMap::insert: the entry under the key is added or replaced.
Insert(pl, name, entry) ==
    [n \in DOMAIN pl \cup {name} |-> IF n = name THEN entry ELSE pl[n]]

\* HashMap::remove
Remove(pl, name) == [n \in DOMAIN pl \ {name} |-> pl[n]]

\* PluginManager::call_plugin_lifecycle
call_plugin_lifecycle(loader, func_name, reg) ==
    call_function(loader, func_name, <<>>, reg)

\* PluginManager::call_plugin_with_json; json_str is to_string(data).
call_plugin_with_json(loader, func_name, json_str, reg) ==
    call_function(loader, func_name, <<json_str>>, reg)

\* PluginManager::call_plugin_custom
call_plugin_custom(loader, event_name, data, reg) ==
    call_function(loader, "on_" \o event_name, <<JsonValue(data)>>, reg)

\* A match whose AppStarted arm calls the load hook.
DispatchStartLoads(event, loader, reg) ==
    CASE event.kind = "AssetCreated" ->
            call_plugin_with_json(loader, "on_asset_created", JsonAsset(event.asset), reg)
      [] event.kind = "AssetUpdated" ->
            call_plugin_with_json(loader, "on_asset_updated", JsonAsset(event.asset), reg)
      [] event.kind = "AssetDeleted" ->
            call_plugin_with_json(loader, "on_asset_deleted", JsonString(event.id), reg)
      [] event.kind = "AppStarted" ->
            call_plugin_lifecycle(loader, "on_load", reg)
      [] event.kind = "AppClosing" ->
            call_plugin_lifecycle(loader, "on_app_closing", reg)
      [] OTHER ->
            call_plugin_custom(loader, event.name, event.data, reg)

\* A match whose AssetUpdated arm names the handler of AssetCreated.
DispatchSwapped(event, loader, reg) ==
    CASE event.kind \in {"AssetCreated", "AssetUpdated"} ->
            call_plugin_with_json(loader, "on_asset_created", JsonAsset(event.asset), reg)
      [] event.kind = "AssetDeleted" ->
            call_plugin_with_json(loader, "on_asset_deleted", JsonString(event.id), reg)
      [] event.kind = "AppStarted" ->
            call_plugin_lifecycle(loader, "on_app_started", reg)
      [] event.kind = "AppClosing" ->
            call_plugin_lifecycle(loader, "on_app_closing", reg)
      [] OTHER ->
            call_plugin_custom(loader, event.name, event.data, reg)

\* The match of broadcast_event: one call into one session.
Dispatch(event, loader, reg) ==
    CASE event.kind = "AssetCreated" ->
            call_plugin_with_json(loader, "on_asset_created", JsonAsset(event.asset), reg)
      [] event.kind = "AssetUpdated" ->
            call_plugin_with_json(loader, "on_asset_updated", JsonAsset(event.asset), reg)
      [] event.kind = "AssetDeleted" ->
            call_plugin_with_json(loader, "on_asset_deleted", JsonString(event.id), reg)
      [] event.kind = "AppStarted" ->
            call_plugin_lifecycle(loader, "on_app_started", reg)
      [] event.kind = "AppClosing" ->
            call_plugin_lifecycle(loader, "on_app_closing", reg)
      [] OTHER ->
            call_plugin_custom(loader, event.name, event.data, reg)

\* A broadcast that does not look at the enabled flag.
VisitedAlways(info) == TRUE

\* The test at the head of the loop of broadcast_event.
Visited(info) == info.enabled

\* A loop that stops at the first call that raises.
BroadcastCallsAbort(pl, visited, event) ==
    With([i \in 1..Len(visited) |-> Dispatch(event, pl[visited[i]].loader, RegOf(pl))],
         LAMBDA calls :
            IF \E i \in DOMAIN calls : calls[i].res = "LuaError"
            THEN SubSeq(calls, 1, CHOOSE i \in DOMAIN calls :
                                     /\ calls[i].res = "LuaError"
                                     /\ \A j \in 1..(i - 1) : calls[j].res # "LuaError")
            ELSE calls)

\* The loop of broadcast_event over the entries it does not skip: each is
\* called, and a failed call is logged and the loop goes on.
BroadcastCalls(pl, visited, event) ==
    [i \in 1..Len(visited) |-> Dispatch(event, pl[visited[i]].loader, RegOf(pl))]

\* A broadcast that hands the first failure of a handler to its caller.
broadcast_event_propagating(pl, order, event) ==
    With(BroadcastCalls(pl, SelectSeq(order, LAMBDA n : Visited(pl[n].info)), event),
         LAMBDA calls :
            [res     |-> IF \E i \in DOMAIN calls : calls[i].res = "LuaError"
                         THEN "LuaError" ELSE "Unit",
             plugins |-> pl,
             trace   |-> calls])

\* PluginManager::broadcast_event; order is the order in which the hash map
\* yields its entries.
broadcast_event(pl, order, event) ==
    With(SelectSeq(order, LAMBDA n : Visited(pl[n].info)), LAMBDA visited :
        [res     |-> "Unit",
         plugins |-> pl,
         trace   |-> BroadcastCalls(pl, visited, event)])

\* A load that fails when on_load fails.
load_plugin_strict(pl, sid, plugin_dir, content) ==
    With(load_from_dir(PluginLoaderNew(sid), plugin_dir, content), LAMBDA r :
        IF r.res # "Ok"
        THEN [res |-> r.res, ret |-> NoInfo, plugins |-> pl, trace |-> <<>>]
        ELSE With(call_plugin_lifecycle(r.lua, "on_load", RegOf(pl)), LAMBDA call :
                IF call.res = "LuaError"
                THEN [res |-> "LuaError", ret |-> NoInfo, plugins |-> pl,
                      trace |-> <<call>>]
                ELSE [res     |-> "Ok",
                      ret     |-> r.info,
                      plugins |-> Insert(pl, r.info.name,
                                         [info |-> r.info, loader |-> r.lua]),
                      trace   |-> <<call>>]))

\* A load that replaces nothing: the first entry under a name stays.
load_plugin_keep_first(pl, sid, plugin_dir, content) ==
    With(load_from_dir(PluginLoaderNew(sid), plugin_dir, content), LAMBDA r :
        IF r.res # "Ok"
        THEN [res |-> r.res, ret |-> NoInfo, plugins |-> pl, trace |-> <<>>]
        ELSE [res     |-> "Ok",
              ret     |-> r.info,
              plugins |-> IF r.info.name \in DOMAIN pl THEN pl
                          ELSE Insert(pl, r.info.name, [info |-> r.info, loader |-> r.lua]),
              trace   |-> <<call_plugin_lifecycle(r.lua, "on_load", RegOf(pl))>>])

\* A load that evaluates the script in the interpreter of the entry that
\* was loaded from the same directory, when there is one.
load_plugin_reusing(pl, sid, plugin_dir, content) ==
    With(IF \E n \in DOMAIN pl : pl[n].info.path = plugin_dir
         THEN pl[CHOOSE n \in DOMAIN pl : pl[n].info.path = plugin_dir].loader
         ELSE PluginLoaderNew(sid), LAMBDA base :
      With(load_from_dir(base, plugin_dir, content), LAMBDA r :
        IF r.res # "Ok"
        THEN [res |-> r.res, ret |-> NoInfo, plugins |-> pl, trace |-> <<>>]
        ELSE [res     |-> "Ok",
              ret     |-> r.info,
              plugins |-> Insert(pl, r.info.name, [info |-> r.info, loader |-> r.lua]),
              trace   |-> <<call_plugin_lifecycle(r.lua, "on_load", RegOf(pl))>>]))

\* A load that inserts the entry before it calls on_load.
load_plugin_insert_first(pl, sid, plugin_dir, content) ==
    With(load_from_dir(PluginLoaderNew(sid), plugin_dir, content), LAMBDA r :
        IF r.res # "Ok"
        THEN [res |-> r.res, ret |-> NoInfo, plugins |-> pl, trace |-> <<>>]
        ELSE With(Insert(pl, r.info.name, [info |-> r.info, loader |-> r.lua]),
                  LAMBDA inserted :
                [res     |-> "Ok",
                 ret     |-> r.info,
                 plugins |-> inserted,
                 trace   |-> <<call_plugin_lifecycle(r.lua, "on_load", RegOf(inserted))>>]))

\* A load that stores the entry under the directory it was read from.
load_plugin_keyed_by_dir(pl, sid, plugin_dir, content) ==
    With(load_from_dir(PluginLoaderNew(sid), plugin_dir, content), LAMBDA r :
        IF r.res # "Ok"
        THEN [res |-> r.res, ret |-> NoInfo, plugins |-> pl, trace |-> <<>>]
        ELSE [res     |-> "Ok",
              ret     |-> r.info,
              plugins |-> Insert(pl, plugin_dir, [info |-> r.info, loader |-> r.lua]),
              trace   |-> <<call_plugin_lifecycle(r.lua, "on_load", RegOf(pl))>>])

\* A load that tells the entry it replaces to unload.
load_plugin_unloading_old(pl, sid, plugin_dir, content) ==
    With(load_from_dir(PluginLoaderNew(sid), plugin_dir, content), LAMBDA r :
        IF r.res # "Ok"
        THEN [res |-> r.res, ret |-> NoInfo, plugins |-> pl, trace |-> <<>>]
        ELSE [res     |-> "Ok",
              ret     |-> r.info,
              plugins |-> Insert(pl, r.info.name, [info |-> r.info, loader |-> r.lua]),
              trace   |-> <<call_plugin_lifecycle(r.lua, "on_load", RegOf(pl))>>
                          \o (IF r.info.name \in DOMAIN pl
                              THEN <<call_plugin_lifecycle(pl[r.info.name].loader,
                                                           "on_unload", RegOf(pl))>>
                              ELSE <<>>)])

\* PluginManager::load_plugin; sid identifies the interpreter it creates.
load_plugin(pl, sid, plugin_dir, content) ==
    With(load_from_dir(PluginLoaderNew(sid), plugin_dir, content), LAMBDA r :
        IF r.res # "Ok"
        THEN [res |-> r.res, ret |-> NoInfo, plugins |-> pl, trace |-> <<>>]
        ELSE [res     |-> "Ok",
              ret     |-> r.info,
              plugins |-> Insert(pl, r.info.name, [info |-> r.info, loader |-> r.lua]),
              trace   |-> <<call_plugin_lifecycle(r.lua, "on_load", RegOf(pl))>>])

\* An unload that reports success for a name that is not registered.
unload_plugin_lenient(pl, name) ==
    IF name \in DOMAIN pl
    THEN [res     |-> "Ok",
          plugins |-> Remove(pl, name),
          trace   |-> <<call_plugin_lifecycle(pl[name].loader, "on_unload",
                                              RegOf(Remove(pl, name)))>>]
    ELSE [res |-> "Ok", plugins |-> pl, trace |-> <<>>]

\* An unload that spares a disabled plugin its on_unload.
unload_plugin_enabled_only(pl, name) ==
    IF name \in DOMAIN pl
    THEN [res     |-> "Ok",
          plugins |-> Remove(pl, name),
          trace   |-> IF pl[name].info.enabled
                      THEN <<call_plugin_lifecycle(pl[name].loader, "on_unload",
                                                   RegOf(Remove(pl, name)))>>
                      ELSE <<>>]
    ELSE [res |-> "NotFound", plugins |-> pl, trace |-> <<>>]

\* An unload that runs on_unload before it removes the entry.
unload_plugin_hook_first(pl, name) ==
    IF name \in DOMAIN pl
    THEN [res     |-> "Ok",
          plugins |-> Remove(pl, name),
          trace   |-> <<call_plugin_lifecycle(pl[name].loader, "on_unload", RegOf(pl))>>]
    ELSE [res |-> "NotFound", plugins |-> pl, trace |-> <<>>]

\* PluginManager::unload_plugin
unload_plugin(pl, name) ==
    IF name \in DOMAIN pl
    THEN [res     |-> "Ok",
          plugins |-> Remove(pl, name),
          trace   |-> <<call_plugin_lifecycle(pl[name].loader, "on_unload",
                                              RegOf(Remove(pl, name)))>>]
    ELSE [res |-> "NotFound", plugins |-> pl, trace |-> <<>>]

\* A set_plugin_enabled that writes the flag of every entry.
set_plugin_enabled_all(pl, name, enabled) ==
    IF name \in DOMAIN pl
    THEN [res |-> "Ok",
          plugins |-> [n \in DOMAIN pl |-> [pl[n] EXCEPT !.info.enabled = enabled]]]
    ELSE [res |-> "NotFound", plugins |-> pl]

\* A set_plugin_enabled that stores a new descriptor holding only the name
\* and the flag.
set_plugin_enabled_rebuild(pl, name, enabled) ==
    IF name \in DOMAIN pl
    THEN [res |-> "Ok",
          plugins |-> [pl EXCEPT ![name].info =
                          [NoInfo EXCEPT !.name = name, !.enabled = enabled]]]
    ELSE [res |-> "NotFound", plugins |-> pl]

\* PluginManager::set_plugin_enabled
set_plugin_enabled(pl, name, enabled) ==
    IF name \in DOMAIN pl
    THEN [res |-> "Ok", plugins |-> [pl EXCEPT ![name].info.enabled = enabled]]
    ELSE [res |-> "NotFound", plugins |-> pl]

\* PluginManager::get_plugin
get_plugin(pl, name) ==
    IF name \in DOMAIN pl THEN Some(pl[name].info) ELSE None

\* PluginManager::list_plugins, in the order the hash map yields.
list_plugins(pl, order) == [i \in 1..Len(order) |-> pl[order[i]].info]

\* One turn of the loop of load_all: a plain file is passed over, a
\* directory is handed to load_plugin, and a failed load is logged and left
\* out of the result.
LoadStep(acc, e) ==
    IF ~IsDir(e.content)
    THEN acc
    ELSE With(load_plugin(acc.plugins, acc.sid, e.dir, e.content), LAMBDA r :
            [plugins |-> r.plugins,
             sid     |-> acc.sid + 1,
             loaded  |-> IF r.res = "Ok" THEN Append(acc.loaded, r.ret) ELSE acc.loaded,
             trace   |-> acc.trace \o r.trace])

\* The loop of load_all over what read_dir yields.
RECURSIVE LoadEach(_, _)
LoadEach(acc, listing) ==
    IF listing = <<>>
    THEN acc
    ELSE With(LoadStep(acc, Head(listing)), LAMBDA next : LoadEach(next, Tail(listing)))

\* The loop of a scan that gives up at the first directory that fails to
\* load.
RECURSIVE LoadEachAbort(_, _)
LoadEachAbort(acc, listing) ==
    IF listing = <<>>
    THEN [acc |-> acc, failed |-> FALSE]
    ELSE With(LoadStep(acc, Head(listing)), LAMBDA next :
            IF IsDir(Head(listing).content) /\ next.loaded = acc.loaded
            THEN [acc |-> next, failed |-> TRUE]
            ELSE LoadEachAbort(next, Tail(listing)))

\* A load_all that hands the first failed load to its caller.
load_all_propagating(pl, sid, exists, listing) ==
    IF ~exists
    THEN [res |-> "Ok", loaded |-> <<>>, plugins |-> pl, sid |-> sid,
          trace |-> <<>>, created |-> TRUE]
    ELSE With(LoadEachAbort([plugins |-> pl, sid |-> sid, loaded |-> <<>>,
                             trace |-> <<>>], listing), LAMBDA r :
            [res     |-> IF r.failed THEN "LoadError" ELSE "Ok",
             loaded  |-> IF r.failed THEN <<>> ELSE r.acc.loaded,
             plugins |-> r.acc.plugins, sid |-> r.acc.sid,
             trace   |-> r.acc.trace, created |-> FALSE])

\* A load_all that empties the registry before it scans.
load_all_fresh(pl, sid, exists, listing) ==
    IF ~exists
    THEN [res |-> "Ok", loaded |-> <<>>, plugins |-> pl, sid |-> sid,
          trace |-> <<>>, created |-> TRUE]
    ELSE With(LoadEach([plugins |-> NoPlugins, sid |-> sid, loaded |-> <<>>,
                        trace |-> <<>>], listing), LAMBDA r :
            [res |-> "Ok", loaded |-> r.loaded, plugins |-> r.plugins, sid |-> r.sid,
             trace |-> r.trace, created |-> FALSE])

\* A load_all for which a missing plugins_dir is an error.
load_all_strict(pl, sid, exists, listing) ==
    IF ~exists
    THEN [res |-> "NotFound", loaded |-> <<>>, plugins |-> pl, sid |-> sid,
          trace |-> <<>>, created |-> FALSE]
    ELSE With(LoadEach([plugins |-> pl, sid |-> sid, loaded |-> <<>>, trace |-> <<>>],
                       listing), LAMBDA r :
            [res |-> "Ok", loaded |-> r.loaded, plugins |-> r.plugins, sid |-> r.sid,
             trace |-> r.trace, created |-> FALSE])

\* PluginManager::load_all; exists says whether plugins_dir is there and
\* listing is what read_dir yields, in its order.
load_all(pl, sid, exists, listing) ==
    IF ~exists
    THEN [res |-> "Ok", loaded |-> <<>>, plugins |-> pl, sid |-> sid,
          trace |-> <<>>, created |-> TRUE]
    ELSE With(LoadEach([plugins |-> pl, sid |-> sid, loaded |-> <<>>, trace |-> <<>>],
                       listing), LAMBDA r :
            [res |-> "Ok", loaded |-> r.loaded, plugins |-> r.plugins, sid |-> r.sid,
             trace |-> r.trace, created |-> FALSE])

(***************************************************************************)
(* Assets and their storage                                                *)
(***************************************************************************)
\* A variant without a payload, and the variant Other(String), of AssetType
\* and of Currency.
Variant(tag) == [tag |-> tag, label |-> ""]

Other(s) == [tag |-> "Other", label |-> s]

\* AssetType::as_str: the text stored in column asset_type.
as_str(asset_type) ==
    CASE asset_type.tag = "Cash"  -> "cash"
      [] asset_type.tag = "Stock" -> "stock"
      [] asset_type.tag = "Other" -> "other"

\* Database::parse_asset_type: the reading of column asset_type.
Database_parse_asset_type(s) ==
    CASE s = "cash"  -> Variant("Cash")
      [] s = "stock" -> Variant("Stock")
      [] OTHER       -> Other(s)

\* str::to_lowercase and str::to_uppercase on the texts a request carries.
to_lowercase(s) ==
    CASE s = "Art"   -> "art"
      [] s = "Stock" -> "stock"
      [] OTHER       -> s

to_uppercase(s) ==
    CASE s = "btc" -> "BTC"
      [] s = "usd" -> "USD"
      [] OTHER     -> s

\* commands::parse_asset_type: the type a request names.
parse_asset_type(s) ==
    With(to_lowercase(s), LAMBDA l :
        CASE l = "cash"  -> Variant("Cash")
          [] l = "stock" -> Variant("Stock")
          [] OTHER       -> Other(l))

\* commands::parse_currency: the currency a request names.
parse_currency(s) ==
    With(to_uppercase(s), LAMBDA u :
        CASE u = "CNY" -> Variant("CNY")
          [] u = "RMB" -> Variant("CNY")
          [] u = "USD" -> Variant("USD")
          [] OTHER     -> Other(u))

\* Currency::default.
CurrencyDefault == Variant("CNY")

\* The currencies and tag lists the model's assets carry.
Currencies == {Variant("CNY"), Variant("USD"), Other("BTC")}

TagLists == {<<>>, <<"saving">>}

\* serde_json::to_string of a Currency: a unit variant is its name as a
\* string, Other(c) an object with one member.
CurrencyJson(c) ==
    IF c.tag = "Other"
    THEN "{\"Other\":" \o JsonString(c.label) \o "}"
    ELSE JsonString(c.tag)

\* serde_json::from_str::<Currency>(..).unwrap_or_default().
CurrencyFromJson(s) ==
    IF \E c \in Currencies : CurrencyJson(c) = s
    THEN CHOOSE c \in Currencies : CurrencyJson(c) = s
    ELSE CurrencyDefault

\* serde_json::to_string of a Vec<String>.
RECURSIVE TagsJoin(_)
TagsJoin(tags) ==
    IF tags = <<>> THEN ""
    ELSE IF Len(tags) = 1 THEN JsonString(Head(tags))
    ELSE JsonString(Head(tags)) \o "," \o TagsJoin(Tail(tags))

TagsJson(tags) == "[" \o TagsJoin(tags) \o "]"

\* serde_json::from_str::<Vec<String>>(..).unwrap_or_default().
TagsFromJson(s) ==
    IF \E l \in TagLists : TagsJson(l) = s
    THEN CHOOSE l \in TagLists : TagsJson(l) = s
    ELSE <<>>

\* Asset::new(..).with_currency(..), with the optional description and tags
\* of create_asset; the id is the one Uuid::new_v4() drew.
NewAsset(id, name, asset_type, value, currency, description, tags) ==
    [id |-> id, name |-> name, asset_type |-> asset_type, value |-> value,
     currency |-> currency, description |-> description, tags |-> tags]

\* The parameters of the INSERT and of the UPDATE: one row of table assets.
RowOf(asset) ==
    [id          |-> asset.id,
     name        |-> asset.name,
     asset_type  |-> as_str(asset.asset_type),
     value       |-> asset.value,
     currency    |-> CurrencyJson(asset.currency),
     description |-> asset.description,
     tags        |-> TagsJson(asset.tags)]

\* Database::row_to_asset.
row_to_asset(row) ==
    [id          |-> row.id,
     name        |-> row.name,
     asset_type  |-> Database_parse_asset_type(row.asset_type),
     value       |-> row.value,
     currency    |-> CurrencyFromJson(row.currency),
     description |-> row.description,
     tags        |-> TagsFromJson(row.tags)]

\* The empty table.
NoRows == [i \in {} |-> 0]

\* Database::create_asset: the INSERT; the id is the primary key.
Database_create_asset(rows, asset) ==
    IF asset.id \in DOMAIN rows
    THEN [res |-> "DatabaseError", rows |-> rows]
    ELSE [res |-> "Ok",
          rows |-> [i \in DOMAIN rows \cup {asset.id} |->
                       IF i = asset.id THEN RowOf(asset) ELSE rows[i]]]

\* Database::get_asset: the row with that id, if any.
Database_get_asset(rows, id) ==
    IF id \in DOMAIN rows THEN Some(row_to_asset(rows[id])) ELSE None

\* The text of the n-th id drawn, and the rank of an id among the drawn.
IdText(n) ==
    CASE n = 1 -> "u1"
      [] n = 2 -> "u2"
      [] n = 3 -> "u3"
      [] OTHER -> "u4"

IdRank(id) == CHOOSE n \in 1..4 : IdText(n) = id

\* Database::list_assets: every row, newest first; ids are drawn in the
\* order of creation.
RECURSIVE ListRows(_, _)
ListRows(rows, ids) ==
    IF ids = {} THEN <<>>
    ELSE With(CHOOSE i \in ids : \A j \in ids : IdRank(j) <= IdRank(i), LAMBDA i :
            <<row_to_asset(rows[i])>> \o ListRows(rows, ids \ {i}))

Database_list_assets(rows) == ListRows(rows, DOMAIN rows)

\* Database::update_asset: the UPDATE of the row with the asset's id.
Database_update_asset(rows, asset) ==
    IF asset.id \notin DOMAIN rows
    THEN [res |-> "NotFound", rows |-> rows]
    ELSE [res |-> "Ok", rows |-> [rows EXCEPT ![asset.id] = RowOf(asset)]]

\* Database::delete_asset: the DELETE of the row with that id.
Database_delete_asset(rows, id) ==
    IF id \notin DOMAIN rows
    THEN [res |-> "NotFound", rows |-> rows]
    ELSE [res |-> "Ok", rows |-> [i \in DOMAIN rows \ {id} |-> rows[i]]]

(***************************************************************************)
(* The application state and the requests of the command layer             *)
(***************************************************************************)
\* The threads that run commands at the same time.
Threads == {"t1", "t2"}

\* The number of ids Uuid::new_v4() draws in a run of the model.
MaxAssets == 1

\* Uuid::parse_str: the id a text spells, if it spells one.
Uuid_parse_str(s) == IF \E n \in 1..4 : IdText(n) = s THEN Some(s) ELSE None

\* A Mutex nobody holds, and the condition under which Mutex::lock returns.
Free == "free"

\* A caller of lock() that finds the mutex taken goes on all the same.
MutexFreeAlways(holder) == TRUE

MutexFree(holder) == holder = Free

\* The CreateAssetRequest values a caller sends.
CreateRequests ==
    {[name |-> "fund", asset_type |-> "Stock", value |-> 10, currency |-> None,
      description |-> None, tags |-> None],
     [name |-> "painting", asset_type |-> "Art", value |-> 20,
      currency |-> Some("btc"), description |-> Some("oil"),
      tags |-> Some(<<"saving">>)]}

\* The ids and names an UpdateAssetRequest or a delete_asset call carries.
RequestIds == {"u1", "zz"}

RequestNames == {Some("gold")}

\* The arguments of a set_plugin_enabled command.
EnableRequests == {[name |-> "A", enabled |-> FALSE], [name |-> "ghost", enabled |-> TRUE]}

\* What the plugins directory holds when reload_plugins scans it.
ReloadListings ==
    {<<[dir |-> "d1", content |-> "file"]>>,
     <<[dir |-> "d1", content |-> "beta"]>>,
     <<[dir |-> "d2", content |-> "alphaBad"], [dir |-> "d1", content |-> "broken"]>>}

\* What the plugins directory holds when main() scans it.
StartupListings == {<<>>, <<[dir |-> "d1", content |-> "alpha"]>>}

NoCmdAsset == NewAsset("", "", Variant("Cash"), 0, CurrencyDefault, None, <<>>)

NoPending == [some |-> FALSE, plugins |-> NoPlugins, info |-> NoInfo]

\* A thread that runs no command.
Idle ==
    [op |-> "none", pc |-> "idle", id |-> "", name |-> None, flag |-> FALSE,
     asset |-> NoCmdAsset, todo |-> <<>>, pending |-> NoPending,
     stored |-> None, after |-> {}, sent |-> <<>>, out |-> <<>>, ret |-> ""]

\* The id of the asset a command works on.
TargetId(c) == IF c.op = "create_asset" THEN c.asset.id ELSE c.id

\* The commands under way whose storage call on the asset of c has
\* already succeeded: they hold their place before c in the order of the
\* db lock.
CommittedBefore(cs, t) ==
    {u \in Threads \ {t} : cs[u].stored.some /\ TargetId(cs[u]) = TargetId(cs[t])}

\* The event a command broadcasts once its storage call has returned Ok.
EventOf(c) ==
    CASE c.op = "create_asset" -> AssetCreated(c.asset)
      [] c.op = "update_asset" -> AssetUpdated(c.asset)
      [] c.op = "delete_asset" -> AssetDeleted(c.id)

\* The directories the scans under way have yet to load.
RECURSIVE DirsIn(_)
DirsIn(listing) ==
    IF listing = <<>> THEN 0
    ELSE (IF IsDir(Head(listing).content) THEN 1 ELSE 0) + DirsIn(Tail(listing))

RECURSIVE DirsToLoad(_, _)
DirsToLoad(c, ts) ==
    IF ts = {} THEN 0
    ELSE With(CHOOSE t \in ts : TRUE, LAMBDA t :
            DirsIn(c[t].todo) + DirsToLoad(c, ts \ {t}))

(***************************************************************************)
(* The state machine                                                       *)
(***************************************************************************)
\* The names a caller passes to unload_plugin and set_plugin_enabled.
NameArgs == {"A", "B", "Unknown", "ghost"}

\* What read_dir yields for a disk: the children that exist, in some order.
Listing(disk, ord) == [i \in 1..Len(ord) |-> [dir |-> ord[i], content |-> disk[ord[i]]]]

Present(disk) == {d \in Dirs : disk[d] # "absent"}

NumDirs(disk) == Cardinality({d \in Dirs : IsDir(disk[d])})

NoOp ==
    [op |-> "none", name |-> "", dir |-> "", content |-> "", flag |-> FALSE,
     event |-> NoEvent, listing |-> <<>>, exists |-> FALSE, created |-> FALSE,
     res |-> "", ret |-> NoInfo, loaded |-> <<>>, pre |-> NoPlugins, trace |-> <<>>]

Init ==
    /\ plugins = NoPlugins
    /\ nextSid = 1
    /\ lastOp = NoOp
    /\ db = NoRows
    /\ dbLock = Free
    /\ pmLock = Free
    /\ cmd = [t \in Threads |-> Idle]
    /\ nextId = 1

LoadPlugin(d, c) ==
    /\ nextSid <= MaxSid
    /\ \E r \in {load_plugin(plugins, nextSid, d, c)} :
        /\ plugins' = r.plugins
        /\ lastOp' = [NoOp EXCEPT !.op = "load_plugin", !.dir = d, !.content = c,
                                  !.res = r.res, !.ret = r.ret, !.pre = plugins,
                                  !.trace = r.trace]
    /\ nextSid' = nextSid + 1
    /\ UNCHANGED cvars

LoadAll(exists, disk, ord) ==
    /\ nextSid + NumDirs(disk) <= MaxSid + 1
    /\ \E r \in {load_all(plugins, nextSid, exists, Listing(disk, ord))} :
           /\ plugins' = r.plugins
           /\ nextSid' = r.sid
           /\ lastOp' = [NoOp EXCEPT !.op = "load_all", !.listing = Listing(disk, ord),
                                     !.exists = exists, !.created = r.created,
                                     !.res = r.res, !.loaded = r.loaded,
                                     !.pre = plugins, !.trace = r.trace]
    /\ UNCHANGED cvars

UnloadPlugin(name) ==
    /\ \E r \in {unload_plugin(plugins, name)} :
        /\ plugins' = r.plugins
        /\ lastOp' = [NoOp EXCEPT !.op = "unload_plugin", !.name = name,
                                  !.res = r.res, !.pre = plugins, !.trace = r.trace]
    /\ UNCHANGED nextSid
    /\ UNCHANGED cvars

SetPluginEnabled(name, enabled) ==
    /\ \E r \in {set_plugin_enabled(plugins, name, enabled)} :
        /\ plugins' = r.plugins
        /\ lastOp' = [NoOp EXCEPT !.op = "set_plugin_enabled", !.name = name,
                                  !.flag = enabled, !.res = r.res, !.pre = plugins]
    /\ UNCHANGED nextSid
    /\ UNCHANGED cvars

BroadcastEvent(event, order) ==
    /\ \E r \in {broadcast_event(plugins, order, event)} :
        /\ plugins' = r.plugins
        /\ lastOp' = [NoOp EXCEPT !.op = "broadcast_event", !.event = event,
                                  !.res = r.res, !.pre = plugins, !.trace = r.trace]
    /\ UNCHANGED nextSid
    /\ UNCHANGED cvars

Next ==
    \/ \E d \in Dirs : \E c \in DirChoices[d] : LoadPlugin(d, c)
    \/ \E c1 \in DirChoices["d1"], c2 \in DirChoices["d2"] :
          LET disk == [d \in Dirs |-> IF d = "d1" THEN c1 ELSE c2] IN
          \E ord \in Perms(Present(disk)) : LoadAll(TRUE, disk, ord)
    \/ LoadAll(FALSE, [d \in Dirs |-> "absent"], <<>>)
    \/ \E name \in NameArgs : UnloadPlugin(name)
    \/ \E name \in NameArgs, enabled \in BOOLEAN : SetPluginEnabled(name, enabled)
    \/ \E event \in Events, order \in Perms(DOMAIN plugins) : BroadcastEvent(event, order)

Spec == Init /\ [][Next]_vars

(***************************************************************************)
(* The command layer: commands of two threads over one AppState            *)
(***************************************************************************)
\* main(): the database is opened and the plugins directory scanned before
\* any command runs.
CInit ==
    /\ \E listing \in StartupListings :
         \E r \in {load_all(NoPlugins, 1, TRUE, listing)} :
            /\ plugins = r.plugins
            /\ nextSid = r.sid
    /\ lastOp = NoOp
    /\ db = NoRows
    /\ dbLock = Free
    /\ pmLock = Free
    /\ cmd = [t \in Threads |-> Idle]
    /\ nextId = 1

\* create_asset up to its first lock: the request is parsed and the asset
\* built.
CreateAssetCall(t, req) ==
    /\ cmd[t].pc = "idle"
    /\ nextId <= MaxAssets
    /\ cmd' = [cmd EXCEPT ![t] =
                 [Idle EXCEPT !.op = "create_asset", !.pc = "lock_db",
                    !.asset = NewAsset(IdText(nextId), req.name,
                                 parse_asset_type(req.asset_type), req.value,
                                 IF req.currency.some
                                 THEN parse_currency(req.currency.v)
                                 ELSE CurrencyDefault,
                                 req.description,
                                 IF req.tags.some THEN req.tags.v ELSE <<>>)]]
    /\ nextId' = nextId + 1
    /\ UNCHANGED <<plugins, nextSid, lastOp, db, dbLock, pmLock>>

\* update_asset up to its first lock: the id is parsed.
UpdateAssetCall(t, id, name) ==
    /\ cmd[t].pc = "idle"
    /\ cmd' = [cmd EXCEPT ![t] =
                 IF Uuid_parse_str(id).some
                 THEN [Idle EXCEPT !.op = "update_asset", !.pc = "lock_db",
                                   !.id = id, !.name = name]
                 ELSE [Idle EXCEPT !.op = "update_asset", !.pc = "done",
                                   !.ret = "Err"]]
    /\ UNCHANGED <<plugins, nextSid, lastOp, db, dbLock, pmLock, nextId>>

\* delete_asset up to its first lock: the id is parsed.
DeleteAssetCall(t, id) ==
    /\ cmd[t].pc = "idle"
    /\ cmd' = [cmd EXCEPT ![t] =
                 IF Uuid_parse_str(id).some
                 THEN [Idle EXCEPT !.op = "delete_asset", !.pc = "lock_db", !.id = id]
                 ELSE [Idle EXCEPT !.op = "delete_asset", !.pc = "done",
                                   !.ret = "Err"]]
    /\ UNCHANGED <<plugins, nextSid, lastOp, db, dbLock, pmLock, nextId>>

\* state.db.lock()
LockDb(t) ==
    /\ cmd[t].pc = "lock_db"
    /\ MutexFree(dbLock)
    /\ dbLock' = t
    /\ cmd' = [cmd EXCEPT ![t].pc = "db"]
    /\ UNCHANGED <<plugins, nextSid, lastOp, db, pmLock, nextId>>

\* A command that goes on to its broadcast whatever its storage call
\* returned.
AfterStoreLenient(t, r, arg, asset) ==
    /\ db' = r.rows
    /\ cmd' = [cmd EXCEPT ![t].pc = "unlock_db", ![t].asset = asset,
                          ![t].stored = IF r.res = "Ok" THEN Some(arg) ELSE None,
                          ![t].after = CommittedBefore(cmd, t)]
    /\ UNCHANGED <<plugins, nextSid, lastOp, dbLock, pmLock, nextId>>

\* What a command does once its storage call on arg has returned: on Ok
\* it goes on to the end of the guard's scope, on Err the ? returns and
\* drops the guard.
AfterStore(t, r, arg, asset) ==
    /\ db' = r.rows
    /\ IF r.res = "Ok"
       THEN /\ cmd' = [cmd EXCEPT ![t].pc = "unlock_db", ![t].stored = Some(arg),
                                  ![t].asset = asset,
                                  ![t].after = CommittedBefore(cmd, t)]
            /\ UNCHANGED dbLock
       ELSE /\ cmd' = [cmd EXCEPT ![t].pc = "done", ![t].ret = "Err"]
            /\ dbLock' = Free
    /\ UNCHANGED <<plugins, nextSid, lastOp, pmLock, nextId>>

\* create_asset under the db lock: db.create_asset(&asset)?
CreateAssetStore(t, fault) ==
    /\ cmd[t].pc = "db"
    /\ cmd[t].op = "create_asset"
    /\ \E r \in {IF fault THEN [res |-> "DatabaseError", rows |-> db]
                 ELSE Database_create_asset(db, cmd[t].asset)} :
          AfterStore(t, r, cmd[t].asset, cmd[t].asset)

\* update_asset under the db lock: get_asset, the changes of the request,
\* db.update_asset(&asset)?
UpdateAssetStore(t, fault) ==
    /\ cmd[t].pc = "db"
    /\ cmd[t].op = "update_asset"
    /\ \E found \in {Database_get_asset(db, cmd[t].id)} :
          IF ~found.some
          THEN AfterStore(t, [res |-> "Asset not found", rows |-> db],
                          cmd[t].asset, cmd[t].asset)
          ELSE \E asset \in {[found.v EXCEPT !.name = IF cmd[t].name.some
                                                       THEN cmd[t].name.v ELSE @]} :
               \E r \in {IF fault THEN [res |-> "DatabaseError", rows |-> db]
                         ELSE Database_update_asset(db, asset)} :
                  AfterStore(t, r, asset, asset)

\* delete_asset under the db lock: db.delete_asset(uuid)?
DeleteAssetStore(t, fault) ==
    /\ cmd[t].pc = "db"
    /\ cmd[t].op = "delete_asset"
    /\ \E r \in {IF fault THEN [res |-> "DatabaseError", rows |-> db]
                 ELSE Database_delete_asset(db, cmd[t].id)} :
          AfterStore(t, r, cmd[t].id, cmd[t].asset)

\* A command that keeps its db guard while it goes on to the plugins.
UnlockDbKeeping(t) ==
    /\ cmd[t].pc = "unlock_db"
    /\ cmd' = [cmd EXCEPT ![t].pc = "lock_pm"]
    /\ UNCHANGED <<plugins, nextSid, lastOp, db, dbLock, pmLock, nextId>>

\* The guard of the db lock goes out of scope, or drop(db).
UnlockDb(t) ==
    /\ cmd[t].pc = "unlock_db"
    /\ dbLock' = Free
    /\ cmd' = [cmd EXCEPT ![t].pc = "lock_pm"]
    /\ UNCHANGED <<plugins, nextSid, lastOp, db, pmLock, nextId>>

\* get_plugins, reload_plugins and set_plugin_enabled up to their lock.
GetPluginsCall(t) ==
    /\ cmd[t].pc = "idle"
    /\ cmd' = [cmd EXCEPT ![t] = [Idle EXCEPT !.op = "get_plugins", !.pc = "lock_pm"]]
    /\ UNCHANGED <<plugins, nextSid, lastOp, db, dbLock, pmLock, nextId>>

ReloadPluginsCall(t, listing) ==
    /\ cmd[t].pc = "idle"
    /\ nextSid + DirsToLoad(cmd, Threads) + DirsIn(listing) <= MaxSid + 1
    /\ cmd' = [cmd EXCEPT ![t] = [Idle EXCEPT !.op = "reload_plugins",
                                              !.pc = "lock_pm", !.todo = listing]]
    /\ UNCHANGED <<plugins, nextSid, lastOp, db, dbLock, pmLock, nextId>>

SetPluginEnabledCall(t, name, enabled) ==
    /\ cmd[t].pc = "idle"
    /\ cmd' = [cmd EXCEPT ![t] = [Idle EXCEPT !.op = "set_plugin_enabled",
                                              !.pc = "lock_pm", !.id = name,
                                              !.flag = enabled]]
    /\ UNCHANGED <<plugins, nextSid, lastOp, db, dbLock, pmLock, nextId>>

\* state.plugin_manager.lock()
LockPm(t) ==
    /\ cmd[t].pc = "lock_pm"
    /\ MutexFree(pmLock)
    /\ pmLock' = t
    /\ cmd' = [cmd EXCEPT ![t].pc = "pm"]
    /\ UNCHANGED <<plugins, nextSid, lastOp, db, dbLock, nextId>>

\* pm.broadcast_event(..) of create_asset, update_asset and delete_asset.
CommandBroadcast(t, order) ==
    /\ cmd[t].pc = "pm"
    /\ cmd[t].op \in {"create_asset", "update_asset", "delete_asset"}
    /\ \E r \in {broadcast_event(plugins, order, EventOf(cmd[t]))} :
          /\ plugins' = r.plugins
          /\ cmd' = [cmd EXCEPT ![t].pc = "unlock_pm", ![t].ret = "Ok",
                                ![t].sent = Append(@, EventOf(cmd[t]))]
    /\ UNCHANGED <<nextSid, lastOp, db, dbLock, pmLock, nextId>>

\* pm.list_plugins() of get_plugins.
GetPluginsList(t, order) ==
    /\ cmd[t].pc = "pm"
    /\ cmd[t].op = "get_plugins"
    /\ cmd' = [cmd EXCEPT ![t].pc = "unlock_pm", ![t].ret = "Ok",
                          ![t].out = list_plugins(plugins, order)]
    /\ UNCHANGED <<plugins, nextSid, lastOp, db, dbLock, pmLock, nextId>>

\* pm.set_plugin_enabled(&name, enabled) of set_plugin_enabled.
SetPluginEnabledApply(t) ==
    /\ cmd[t].pc = "pm"
    /\ cmd[t].op = "set_plugin_enabled"
    /\ \E r \in {set_plugin_enabled(plugins, cmd[t].id, cmd[t].flag)} :
          /\ plugins' = r.plugins
          /\ cmd' = [cmd EXCEPT ![t].pc = "unlock_pm",
                                ![t].ret = IF r.res = "Ok" THEN "Ok" ELSE "Err"]
    /\ UNCHANGED <<nextSid, lastOp, db, dbLock, pmLock, nextId>>

\* pm.load_all() of reload_plugins, one directory entry at a time: up to
\* the on_load call of load_plugin ...
ReloadPluginsHook(t) ==
    /\ cmd[t].pc = "pm"
    /\ cmd[t].op = "reload_plugins"
    /\ cmd[t].todo # <<>>
    /\ ~cmd[t].pending.some
    /\ \E e \in {Head(cmd[t].todo)} :
          IF ~IsDir(e.content)
          THEN /\ cmd' = [cmd EXCEPT ![t].todo = Tail(@)]
               /\ UNCHANGED nextSid
          ELSE \E r \in {load_plugin(plugins, nextSid, e.dir, e.content)} :
               /\ nextSid' = nextSid + 1
               /\ cmd' = IF r.res = "Ok"
                         THEN [cmd EXCEPT ![t].pending =
                                  [some |-> TRUE, plugins |-> r.plugins,
                                   info |-> r.ret]]
                         ELSE [cmd EXCEPT ![t].todo = Tail(@)]
    /\ UNCHANGED <<plugins, lastOp, db, dbLock, pmLock, nextId>>

\* ... and its insert into the map.
ReloadPluginsInsert(t) ==
    /\ cmd[t].pc = "pm"
    /\ cmd[t].op = "reload_plugins"
    /\ cmd[t].pending.some
    /\ plugins' = cmd[t].pending.plugins
    /\ cmd' = [cmd EXCEPT ![t].todo = Tail(@), ![t].pending = NoPending,
                          ![t].out = Append(@, cmd[t].pending.info)]
    /\ UNCHANGED <<nextSid, lastOp, db, dbLock, pmLock, nextId>>

\* The end of the loop of load_all.
ReloadPluginsEnd(t) ==
    /\ cmd[t].pc = "pm"
    /\ cmd[t].op = "reload_plugins"
    /\ cmd[t].todo = <<>>
    /\ cmd' = [cmd EXCEPT ![t].pc = "unlock_pm", ![t].ret = "Ok"]
    /\ UNCHANGED <<plugins, nextSid, lastOp, db, dbLock, pmLock, nextId>>

\* The guard of the plugin_manager lock goes out of scope.
UnlockPm(t) ==
    /\ cmd[t].pc = "unlock_pm"
    /\ pmLock' = Free
    /\ cmd' = [cmd EXCEPT ![t].pc = "done"]
    /\ UNCHANGED <<plugins, nextSid, lastOp, db, dbLock, nextId>>

\* The command has returned; the thread takes the next one.
Return(t) ==
    /\ cmd[t].pc = "done"
    /\ cmd' = [u \in Threads |-> IF u = t THEN Idle
                                 ELSE [cmd[u] EXCEPT !.after = @ \ {t}]]
    /\ UNCHANGED <<plugins, nextSid, lastOp, db, dbLock, pmLock, nextId>>

CNext ==
    \/ \E t \in Threads, req \in CreateRequests : CreateAssetCall(t, req)
    \/ \E t \in Threads, id \in RequestIds, name \in RequestNames :
          UpdateAssetCall(t, id, name)
    \/ \E t \in Threads, id \in RequestIds : DeleteAssetCall(t, id)
    \/ \E t \in Threads : LockDb(t)
    \/ \E t \in Threads, fault \in BOOLEAN : CreateAssetStore(t, fault)
    \/ \E t \in Threads, fault \in BOOLEAN : UpdateAssetStore(t, fault)
    \/ \E t \in Threads, fault \in BOOLEAN : DeleteAssetStore(t, fault)
    \/ \E t \in Threads : UnlockDb(t)
    \/ \E t \in Threads : GetPluginsCall(t)
    \/ \E t \in Threads, listing \in ReloadListings : ReloadPluginsCall(t, listing)
    \/ \E t \in Threads, req \in EnableRequests :
          SetPluginEnabledCall(t, req.name, req.enabled)
    \/ \E t \in Threads : LockPm(t)
    \/ \E t \in Threads, order \in Perms(DOMAIN plugins) : CommandBroadcast(t, order)
    \/ \E t \in Threads, order \in Perms(DOMAIN plugins) : GetPluginsList(t, order)
    \/ \E t \in Threads : SetPluginEnabledApply(t)
    \/ \E t \in Threads : ReloadPluginsHook(t)
    \/ \E t \in Threads : ReloadPluginsInsert(t)
    \/ \E t \in Threads : ReloadPluginsEnd(t)
    \/ \E t \in Threads : UnlockPm(t)
    \/ \E t \in Threads : Return(t)

CmdSpec == CInit /\ [][CNext]_allvars

\* The steps of a command under way that wait for nothing: the storage
\* and registry calls return, guards are dropped, the command returns.
Proceed(t) ==
    \/ \E fault \in BOOLEAN : CreateAssetStore(t, fault)
    \/ \E fault \in BOOLEAN : UpdateAssetStore(t, fault)
    \/ \E fault \in BOOLEAN : DeleteAssetStore(t, fault)
    \/ UnlockDb(t)
    \/ \E order \in Perms(DOMAIN plugins) : CommandBroadcast(t, order)
    \/ \E order \in Perms(DOMAIN plugins) : GetPluginsList(t, order)
    \/ SetPluginEnabledApply(t)
    \/ ReloadPluginsHook(t)
    \/ ReloadPluginsInsert(t)
    \/ ReloadPluginsEnd(t)
    \/ UnlockPm(t)
    \/ Return(t)

\* A thread that runs keeps running, and a thread that waits in lock()
\* gets the mutex if it is free again and again. A step of Proceed stays
\* enabled until its thread takes it, so its fairness is the weak one.
CmdFairSpec ==
    /\ CmdSpec
    /\ \A t \in Threads : SF_allvars(Proceed(t) \/ LockDb(t) \/ LockPm(t))

(***************************************************************************)
(* Properties                                                              *)
(***************************************************************************)
\* The interpreters the registry holds.
LiveSids(pl) == {pl[n].loader.sid : n \in DOMAIN pl}

\* The interpreters created so far that the registry no longer holds.
Dropped == (1..(nextSid - 1)) \ LiveSids(plugins)

\* The function call() would find under a name in a session.
Defines(lua, func_name) ==
    func_name \in GlobalNames /\ lua.gl[func_name].k = "function"

\* The positions of a trace at which a session was called.
CallsIn(trace, sid) == {i \in DOMAIN trace : trace[i].sid = sid}

\* C1: in every broadcast, each session that is registered and enabled is
\* looked up exactly once, all for the same handler, and its handler runs
\* exactly when the session defines it, whatever the other sessions' calls
\* returned; nothing else is called.
C1_BroadcastVisitsEachEnabledOnce ==
    lastOp.op = "broadcast_event" =>
        /\ \A n \in DOMAIN lastOp.pre :
              lastOp.pre[n].info.enabled =>
                /\ Cardinality(CallsIn(lastOp.trace, lastOp.pre[n].loader.sid)) = 1
                /\ \A i \in CallsIn(lastOp.trace, lastOp.pre[n].loader.sid) :
                      /\ lastOp.trace[i].ran = Defines(lastOp.pre[n].loader, lastOp.trace[i].func)
                      /\ lastOp.trace[i].res = "NotFound" <=> ~lastOp.trace[i].ran
        /\ \A i, j \in DOMAIN lastOp.trace : lastOp.trace[i].func = lastOp.trace[j].func
        /\ Len(lastOp.trace) =
              Cardinality({n \in DOMAIN lastOp.pre : lastOp.pre[n].info.enabled})

\* C1 witness: a broadcast over three enabled sessions in which the first
\* handler raised, the second session had no handler and the third ran.
C1_Witness ==
    /\ lastOp.op = "broadcast_event"
    /\ Len(lastOp.trace) = 3
    /\ lastOp.trace[1].res = "LuaError"
    /\ lastOp.trace[2].res = "NotFound"
    /\ lastOp.trace[3].res = "Ok"

ReplacedByLoad ==
    (/\ lastOp.op = "load_plugin"
     /\ lastOp.res = "Ok"
     /\ lastOp.ret.name \in DOMAIN lastOp.pre) =>
        /\ DOMAIN plugins = DOMAIN lastOp.pre
        /\ plugins[lastOp.ret.name].info = lastOp.ret
        /\ plugins[lastOp.ret.name].info.path = lastOp.dir
        /\ plugins[lastOp.ret.name].loader.sid = nextSid - 1
        /\ plugins[lastOp.ret.name].loader.sid # lastOp.pre[lastOp.ret.name].loader.sid
        /\ lastOp.pre[lastOp.ret.name].loader.sid \in Dropped
        /\ get_plugin(plugins, lastOp.ret.name) = Some(lastOp.ret)
        /\ \A order \in Perms(DOMAIN plugins) :
              Cardinality({i \in DOMAIN order :
                  list_plugins(plugins, order)[i].name = lastOp.ret.name}) = 1
        /\ \A n \in DOMAIN plugins \ {lastOp.ret.name} : plugins[n] = lastOp.pre[n]

\* No broadcast calls into an interpreter the registry has dropped.
DroppedNeverCalled ==
    lastOp.op = "broadcast_event" =>
        \A i \in DOMAIN lastOp.trace : lastOp.trace[i].sid \notin Dropped

\* C3: a registered name has one (descriptor, session) pair: a successful
\* load_plugin of a name that is already registered leaves one entry under
\* that name, holding the descriptor (source path included) and the session
\* of this load, and the earlier session is reached by neither get, list nor
\* any broadcast.
C3_DuplicateNameReplaces == ReplacedByLoad /\ DroppedNeverCalled

\* C3 witness: a plugin named A was loaded from one directory and then a
\* different script declaring A was loaded from another.
C3_Witness ==
    /\ lastOp.op = "load_plugin"
    /\ lastOp.res = "Ok"
    /\ lastOp.ret.name \in DOMAIN lastOp.pre
    /\ lastOp.pre[lastOp.ret.name].info.path # lastOp.dir
    /\ lastOp.pre[lastOp.ret.name].info.version # lastOp.ret.version

\* C4: the enabled flag seen under a registered name changes only by
\* set_plugin_enabled on that name.
C4_EnabledOnlyBySetEnabled ==
    [][\A n \in DOMAIN plugins \cap DOMAIN plugins' :
          plugins'[n].info.enabled # plugins[n].info.enabled
          => (lastOp'.op = "set_plugin_enabled" /\ lastOp'.name = n)]_vars

\* C5: in no session can guest code get hold of the os or io library or of
\* loadfile or dofile, and no guest call opens a file.
C5_SandboxClosed ==
    /\ \A n \in DOMAIN plugins : Reachable(plugins[n].loader) \cap Dangerous = {}
    /\ \A i \in DOMAIN lastOp.trace : ~lastOp.trace[i].escaped

\* C6: a broadcast returns no error, and after it the registry holds the
\* same names, with the same descriptors (enabled flag included) and the
\* same interpreters, as before.
C6_BroadcastNeverFailsNorChanges ==
    lastOp.op = "broadcast_event" =>
        /\ lastOp.res = "Unit"
        /\ DOMAIN plugins = DOMAIN lastOp.pre
        /\ \A n \in DOMAIN plugins :
              /\ plugins[n].info = lastOp.pre[n].info
              /\ plugins[n].loader.sid = lastOp.pre[n].loader.sid

\* C6 witness: a broadcast in which one handler raised and another session
\* had no handler.
C6_Witness ==
    /\ lastOp.op = "broadcast_event"
    /\ \E i, j \in DOMAIN lastOp.trace :
          lastOp.trace[i].res = "LuaError" /\ lastOp.trace[j].res = "NotFound"

\* C7: load_plugin on a directory without the entry file returns NotFound,
\* leaves the registry as it was and calls no hook.
C7_MissingEntryFileNotFound ==
    (lastOp.op = "load_plugin" /\ lastOp.content \in {"absent", "file", "empty"}) =>
        /\ lastOp.res = "NotFound"
        /\ plugins = lastOp.pre
        /\ lastOp.trace = <<>>

\* C7 witness: such a load with plugins registered.
C7_Witness ==
    /\ lastOp.op = "load_plugin"
    /\ lastOp.content = "empty"
    /\ Cardinality(DOMAIN plugins) = 2

\* C8: when the entry script raises or yields a value that is not a table,
\* load_plugin fails with LoadError, the registry is as it was and on_load
\* is not called.
C8_BadScriptLoadError ==
    (/\ lastOp.op = "load_plugin"
     /\ lastOp.content \in ScriptIds
     /\ Scripts[lastOp.content].eval # "table") =>
        /\ lastOp.res = "LoadError"
        /\ plugins = lastOp.pre
        /\ lastOp.trace = <<>>

\* C8 witness: a script that defines on_load and yields a value that is not
\* a table, loaded while its declared name is registered.
C8_Witness ==
    /\ lastOp.op = "load_plugin"
    /\ lastOp.content \in {"scalar", "broken"}
    /\ "on_load" \in DOMAIN Scripts[lastOp.content].funcs
    /\ plugins # NoPlugins

\* C9: load_plugin on a script that yields a table returns the descriptor
\* and registers it, enabled, with the interpreter of this load, and has
\* attempted on_load once in that interpreter, whatever on_load did.
C9_OnLoadFailureIgnored ==
    (/\ lastOp.op = "load_plugin"
     /\ lastOp.content \in ScriptIds
     /\ Scripts[lastOp.content].eval = "table") =>
        /\ lastOp.res = "Ok"
        /\ lastOp.ret.enabled
        /\ lastOp.ret.name \in DOMAIN plugins
        /\ plugins[lastOp.ret.name].info = lastOp.ret
        /\ plugins[lastOp.ret.name].loader.sid = nextSid - 1
        /\ Len(lastOp.trace) = 1
        /\ lastOp.trace[1].func = "on_load"
        /\ lastOp.trace[1].sid = nextSid - 1

\* C9 witness: a load whose on_load raised.
C9_Witness ==
    /\ lastOp.op = "load_plugin"
    /\ lastOp.res = "Ok"
    /\ lastOp.trace[1].res = "LuaError"

\* C10: unload_plugin on a registered name returns ok and removes that
\* entry and no other; on_unload is attempted once, in the interpreter of
\* the removed entry, when the entry is already out of the registry.
C10_UnloadRemovesThenCallsHook ==
    (lastOp.op = "unload_plugin" /\ lastOp.name \in DOMAIN lastOp.pre) =>
        /\ lastOp.res = "Ok"
        /\ DOMAIN plugins = DOMAIN lastOp.pre \ {lastOp.name}
        /\ \A n \in DOMAIN plugins : plugins[n] = lastOp.pre[n]
        /\ Len(lastOp.trace) = 1
        /\ lastOp.trace[1].func = "on_unload"
        /\ lastOp.trace[1].sid = lastOp.pre[lastOp.name].loader.sid
        /\ lastOp.trace[1].reg = RegOf(plugins)
        /\ lastOp.name \notin DOMAIN lastOp.trace[1].reg

\* C10 witness: an unload whose on_unload raised, with another plugin left.
C10_Witness ==
    /\ lastOp.op = "unload_plugin"
    /\ lastOp.res = "Ok"
    /\ lastOp.trace[1].res = "LuaError"
    /\ plugins # NoPlugins

\* C11: unload_plugin on a name that is not registered returns NotFound,
\* leaves the registry as it was and calls into no session.
C11_UnloadUnknownNotFound ==
    (lastOp.op = "unload_plugin" /\ lastOp.name \notin DOMAIN lastOp.pre) =>
        /\ lastOp.res = "NotFound"
        /\ plugins = lastOp.pre
        /\ lastOp.trace = <<>>

\* C11 witness: such an unload while two plugins are registered.
C11_Witness ==
    /\ lastOp.op = "unload_plugin"
    /\ lastOp.name \notin DOMAIN lastOp.pre
    /\ Cardinality(DOMAIN lastOp.pre) = 2

\* C12: set_plugin_enabled on a registered name sets the enabled flag of
\* that entry and changes nothing else (the other descriptor fields, the
\* interpreter, the other entries, the set of names), and calls no hook; on
\* a name that is not registered it returns NotFound and changes nothing.
C12_SetEnabledOnlyFlag ==
    lastOp.op = "set_plugin_enabled" =>
        /\ lastOp.trace = <<>>
        /\ DOMAIN plugins = DOMAIN lastOp.pre
        /\ \A n \in DOMAIN plugins \ {lastOp.name} : plugins[n] = lastOp.pre[n]
        /\ IF lastOp.name \in DOMAIN lastOp.pre
           THEN /\ lastOp.res = "Ok"
                /\ plugins[lastOp.name].info.enabled = lastOp.flag
                /\ \A f \in {"name", "version", "author", "description", "path"} :
                      plugins[lastOp.name].info[f] = lastOp.pre[lastOp.name].info[f]
                /\ plugins[lastOp.name].loader = lastOp.pre[lastOp.name].loader
           ELSE /\ lastOp.res = "NotFound"
                /\ plugins = lastOp.pre

\* C12 witness: an enabled plugin is disabled while another one is enabled.
C12_Witness ==
    /\ lastOp.op = "set_plugin_enabled"
    /\ lastOp.res = "Ok"
    /\ ~lastOp.flag
    /\ lastOp.pre[lastOp.name].info.enabled
    /\ \E n \in DOMAIN plugins : n # lastOp.name /\ plugins[n].info.enabled

\* The sessions the last call found in the registry or left in it.
Sessions ==
    {plugins[n].loader : n \in DOMAIN plugins}
    \cup {lastOp.pre[n].loader : n \in DOMAIN lastOp.pre}

\* C13 as stated: a call for a name under which the session defines no
\* function fails with NotFound and executes no guest code at all.
C13_UnknownFunctionRunsNothing ==
    \A i \in DOMAIN lastOp.trace : \A s \in Sessions :
        (s.sid = lastOp.trace[i].sid /\ ~Defines(s, lastOp.trace[i].func)) =>
            /\ lastOp.trace[i].res = "NotFound"
            /\ ~lastOp.trace[i].ran
            /\ ~lastOp.trace[i].meta

\* C13 amended: a call for a name under which the session defines no
\* function fails with NotFound, whatever the lookup met, and calls no
\* function as the handler; guest code runs during the lookup only as the
\* __index metamethod the script put on its global table.
C13_UnknownFunctionNotFound ==
    \A i \in DOMAIN lastOp.trace : \A s \in Sessions :
        (s.sid = lastOp.trace[i].sid /\ ~Defines(s, lastOp.trace[i].func)) =>
            /\ lastOp.trace[i].res = "NotFound"
            /\ ~lastOp.trace[i].ran
            /\ lastOp.trace[i].meta <=> s.gindex # "none"

\* C13 witness: a broadcast that looked a missing handler up in a session
\* without a metatable, in one whose __index returns nil and in one whose
\* __index raises.
C13_Witness ==
    /\ lastOp.op = "broadcast_event"
    /\ \A k \in {"none", "nil", "raise"} :
          \E i \in DOMAIN lastOp.trace : \E s \in Sessions :
              /\ s.sid = lastOp.trace[i].sid
              /\ s.gindex = k
              /\ lastOp.trace[i].res = "NotFound"


\* The children of a listing whose entry script evaluates to a table: the
\* subdirectories whose load succeeds.
Loadable(listing) ==
    SelectSeq(listing, LAMBDA e :
        e.content \in ScriptIds /\ Scripts[e.content].eval = "table")

C16_LoadThenListOne ==
    (/\ lastOp.op = "load_plugin"
     /\ lastOp.res = "Ok"
     /\ lastOp.pre = NoPlugins
     /\ Scripts[lastOp.content].name.t = "string"
     /\ Scripts[lastOp.content].version.t = "string") =>
        \A order \in Perms(DOMAIN plugins) :
            /\ Len(list_plugins(plugins, order)) = 1
            /\ list_plugins(plugins, order)[1].name = Scripts[lastOp.content].name.v
            /\ list_plugins(plugins, order)[1].version = Scripts[lastOp.content].version.v
            /\ list_plugins(plugins, order)[1].enabled
            /\ get_plugin(plugins, Scripts[lastOp.content].name.v)
                  = Some(list_plugins(plugins, order)[1])

\* C16 witness: the first load of a script that declares A, version 1.0.
C16_Witness ==
    /\ lastOp.op = "load_plugin"
    /\ lastOp.res = "Ok"
    /\ lastOp.pre = NoPlugins
    /\ lastOp.ret.name = "A"
    /\ lastOp.ret.version = "1.0"

\* The descriptor field the claim expects for a table field: the declared
\* text when the field is a string, the default otherwise.
Declared(field, default) == IF field.t = "string" THEN field.v ELSE default

\* C17: a load of a script that evaluates to a table succeeds, and each
\* descriptor field is the declared string, or else the default: Unknown,
\* 0.0.0, no author, no description, also when the field is a number.
C17_DescriptorDefaults ==
    (/\ lastOp.op = "load_plugin"
     /\ lastOp.content \in ScriptIds
     /\ Scripts[lastOp.content].eval = "table") =>
        /\ lastOp.res = "Ok"
        /\ lastOp.ret.name = Declared(Scripts[lastOp.content].name, "Unknown")
        /\ lastOp.ret.version = Declared(Scripts[lastOp.content].version, "0.0.0")
        /\ lastOp.ret.author =
              IF Scripts[lastOp.content].author.t = "string"
              THEN Some(Scripts[lastOp.content].author.v) ELSE None
        /\ lastOp.ret.description =
              IF Scripts[lastOp.content].description.t = "string"
              THEN Some(Scripts[lastOp.content].description.v) ELSE None

\* The handler name and the number of arguments the claim fixes for an event.
HandlerOf(event) ==
    CASE event.kind = "AssetCreated" -> [func |-> "on_asset_created", nargs |-> 1]
      [] event.kind = "AssetUpdated" -> [func |-> "on_asset_updated", nargs |-> 1]
      [] event.kind = "AssetDeleted" -> [func |-> "on_asset_deleted", nargs |-> 1]
      [] event.kind = "AppStarted"   -> [func |-> "on_app_started", nargs |-> 0]
      [] event.kind = "AppClosing"   -> [func |-> "on_app_closing", nargs |-> 0]
      [] event.kind = "Custom"       -> [func |-> "on_" \o event.name, nargs |-> 1]

\* C18: every call of a broadcast asks for the handler fixed for the event
\* (for a custom event, on_ followed by its name), with no argument for
\* AppStarted and AppClosing and with one argument for every other event.
C18_HandlerNaming ==
    lastOp.op = "broadcast_event" =>
        \A i \in DOMAIN lastOp.trace :
            /\ lastOp.trace[i].func = HandlerOf(lastOp.event).func
            /\ Len(lastOp.trace[i].args) = HandlerOf(lastOp.event).nargs

\* C18 witness: a broadcast of the custom event ping whose handler on_ping
\* ran with the encoded data as its one argument.
C18_Witness ==
    /\ lastOp.op = "broadcast_event"
    /\ lastOp.event = Custom("ping", JsonNumber("1"))
    /\ \E i \in DOMAIN lastOp.trace :
          /\ lastOp.trace[i].ran
          /\ lastOp.trace[i].func = "on_ping"
          /\ lastOp.trace[i].args = <<"1">>

\* C19: the argument on_asset_deleted receives is the text of the asset id,
\* with nothing added.
C19_DeletedArgumentIsId ==
    (lastOp.op = "broadcast_event" /\ lastOp.event.kind = "AssetDeleted") =>
        \A i \in DOMAIN lastOp.trace : lastOp.trace[i].args = <<lastOp.event.id>>

\* C20: a function the entry script holds only as a field of the table it
\* returned is found by a call under the name of the field.
C20_ReturnedFieldsCallable ==
    \A i \in DOMAIN lastOp.trace : \A s \in Sessions :
        (s.sid = lastOp.trace[i].sid /\ lastOp.trace[i].func \in s.returned) =>
            lastOp.trace[i].ran

\* The name load_plugin_code gives the plugin of an entry script.
NameOf(code) == unwrap_or_else(GetString(Scripts[code].name), "Unknown")

\* C21: no two entries hold the same interpreter; the interpreter of an
\* entry was created by the load that registered it; and its globals are
\* those of a fresh sandbox in which the entry's own script, and no other,
\* was evaluated.
C21_OneSessionPerEntry ==
    /\ \A n, m \in DOMAIN plugins :
          n # m => plugins[n].loader.sid # plugins[m].loader.sid
    /\ \A n \in DOMAIN plugins :
          /\ plugins[n].loader.sid \in 1..(nextSid - 1)
          /\ \E c \in ScriptIds :
                /\ Scripts[c].eval = "table"
                /\ NameOf(c) = n
                /\ plugins[n].loader =
                      EvalChunk(PluginLoaderNew(plugins[n].loader.sid), Scripts[c])
    /\ (lastOp.op = "load_plugin" /\ lastOp.res = "Ok") =>
          /\ plugins[lastOp.ret.name].loader.sid = nextSid - 1
          /\ plugins[lastOp.ret.name].loader.sid \notin LiveSids(lastOp.pre)

\* C21 witness: three plugins are registered, the last one by a load that
\* found the other two.
C21_Witness ==
    /\ lastOp.op = "load_plugin"
    /\ lastOp.res = "Ok"
    /\ Cardinality(DOMAIN lastOp.pre) = 2
    /\ Cardinality(DOMAIN plugins) = 3

\* C22: as long as a name keeps its interpreter (the entry is neither
\* removed nor loaded again), the name, version, author, description and
\* path of its descriptor stay what they were, whatever call is made.
C22_DescriptorImmutable ==
    [][\A n \in DOMAIN plugins \cap DOMAIN plugins' :
          plugins'[n].loader.sid = plugins[n].loader.sid =>
              \A f \in {"name", "version", "author", "description", "path"} :
                  plugins'[n].info[f] = plugins[n].info[f]]_vars

\* C22 witness: the plugin with a declared description has been disabled
\* and still carries its declared version and description.
C22_Witness ==
    /\ lastOp.op = "set_plugin_enabled"
    /\ lastOp.res = "Ok"
    /\ lastOp.pre[lastOp.name].info.description = Some("second")
    /\ plugins[lastOp.name].info.version = "2.0"
    /\ ~plugins[lastOp.name].info.enabled

\* C25: a call goes only into an interpreter that an entry held when the
\* operation began or that the operation created, and an entry never gets
\* an interpreter that existed before the operation; so an interpreter
\* removed by unload_plugin is never called or registered again.  A
\* successful load_plugin registers a fresh sandbox in which only the
\* script just read was evaluated.
C25_UnloadedSessionGone ==
    [][/\ \A i \in DOMAIN lastOp'.trace :
             \/ lastOp'.trace[i].sid \in LiveSids(plugins)
             \/ lastOp'.trace[i].sid \in nextSid..(nextSid' - 1)
       /\ LiveSids(plugins') \subseteq LiveSids(plugins) \cup nextSid..(nextSid' - 1)
       /\ (lastOp'.op = "load_plugin" /\ lastOp'.res = "Ok") =>
             plugins'[lastOp'.ret.name].loader =
                 EvalChunk(PluginLoaderNew(nextSid), Scripts[lastOp'.content])]_vars

\* C25 witness: unload_plugin has returned ok, its on_unload ran, another
\* plugin is still registered and a further load is possible.
C25_Witness ==
    /\ lastOp.op = "unload_plugin"
    /\ lastOp.res = "Ok"
    /\ lastOp.trace[1].ran
    /\ plugins # NoPlugins
    /\ nextSid <= MaxSid

\* The interpreters named in a registry snapshot.
SidsOf(reg) == {reg[n] : n \in DOMAIN reg}

\* C26: a successful load_plugin attempts on_load once, in the interpreter
\* it created and sandboxed and in which the script has been evaluated, at
\* a moment when the registry is still the one the load began with: the
\* new interpreter is in no entry and a prior entry of the same name is
\* still there.  The same holds for each load made by load_all.
C26_LoadOrder ==
    /\ (lastOp.op = "load_plugin" /\ lastOp.res = "Ok") =>
          /\ Len(lastOp.trace) = 1
          /\ lastOp.trace[1].func = "on_load"
          /\ lastOp.trace[1].sid = plugins[lastOp.ret.name].loader.sid
          /\ lastOp.trace[1].reg = RegOf(lastOp.pre)
          /\ lastOp.trace[1].ran = Defines(plugins[lastOp.ret.name].loader, "on_load")
          /\ plugins[lastOp.ret.name].loader.gl["io"] = Nil
          /\ plugins[lastOp.ret.name].loader.gl["log"] = HostFn("log")
    /\ lastOp.op \in {"load_plugin", "load_all"} =>
          \A i \in DOMAIN lastOp.trace :
              /\ lastOp.trace[i].func = "on_load"
              /\ lastOp.trace[i].sid \notin SidsOf(lastOp.trace[i].reg)
              /\ \A j \in DOMAIN lastOp.trace : i # j => lastOp.trace[i].sid # lastOp.trace[j].sid

\* C26 witness: a load of a name that was already registered, whose on_load
\* ran while the earlier interpreter was the registered one.
C26_Witness ==
    /\ lastOp.op = "load_plugin"
    /\ lastOp.res = "Ok"
    /\ lastOp.ret.name \in DOMAIN lastOp.pre
    /\ lastOp.trace[1].ran
    /\ lastOp.trace[1].reg[lastOp.ret.name] = lastOp.pre[lastOp.ret.name].loader.sid

\* C28: every entry is stored under the name in its descriptor: get(n)
\* yields a descriptor named n, and list holds a descriptor named n exactly
\* when get(n) yields one.
C28_KeyIsName ==
    /\ \A n \in DOMAIN plugins : plugins[n].info.name = n
    /\ \A n \in NameArgs \cup Dirs \cup DOMAIN plugins :
          /\ get_plugin(plugins, n).some => get_plugin(plugins, n).v.name = n
          /\ \A order \in Perms(DOMAIN plugins) :
                (\E i \in DOMAIN order : list_plugins(plugins, order)[i].name = n)
                <=> get_plugin(plugins, n).some

\* C28 witness: three entries, one of them under the default name.
C28_Witness ==
    /\ Cardinality(DOMAIN plugins) = 3
    /\ get_plugin(plugins, "Unknown").some
    /\ ~plugins["A"].info.enabled

\* C29: the set of registered names shrinks only by a successful
\* unload_plugin, and then by the name unloaded; no load_all, load_plugin,
\* set_plugin_enabled or broadcast takes a name out.
C29_NamesLeaveOnlyByUnload ==
    [][\/ DOMAIN plugins \subseteq DOMAIN plugins'
       \/ /\ lastOp'.op = "unload_plugin"
          /\ lastOp'.res = "Ok"
          /\ DOMAIN plugins \ DOMAIN plugins' = {lastOp'.name}]_vars

\* C29 witness: a load_all that found the directory empty, or holding only
\* a directory that does not load, while two plugins stay registered.
C29_Witness ==
    /\ lastOp.op = "load_all"
    /\ lastOp.exists
    /\ lastOp.loaded = <<>>
    /\ Cardinality(DOMAIN lastOp.pre) = 2
    /\ DOMAIN plugins = DOMAIN lastOp.pre

\* What a load does to the sessions: it calls on_load and nothing else, and
\* only in interpreters it has created; a load that replaces an entry has
\* called on_load in the interpreter that takes its place.
LoadCallsOnlyOnLoad ==
    /\ lastOp.op \in {"load_plugin", "load_all"} =>
          \A i \in DOMAIN lastOp.trace :
              /\ lastOp.trace[i].func = "on_load"
              /\ lastOp.trace[i].sid \notin LiveSids(lastOp.pre)
    /\ lastOp.op \in {"load_plugin", "load_all"} =>
          \A n \in DOMAIN lastOp.pre \cap DOMAIN plugins :
              plugins[n].loader.sid # lastOp.pre[n].loader.sid =>
                  \E i \in DOMAIN lastOp.trace :
                      /\ lastOp.trace[i].sid = plugins[n].loader.sid
                      /\ lastOp.trace[i].func = "on_load"

\* C30 as stated: on_unload is called by unload_plugin and by nothing
\* else; a load calls on_load only, in the interpreters it creates.
C30_OnUnloadOnlyByUnload ==
    /\ \A i \in DOMAIN lastOp.trace :
          lastOp.trace[i].func = "on_unload" => lastOp.op = "unload_plugin"
    /\ LoadCallsOnlyOnLoad

\* C30 amended: on_unload is called by unload_plugin or by the broadcast
\* of the custom event named unload, and by nothing else; a load calls
\* on_load only, in the interpreters it creates.
C30_OnUnloadByUnloadOrCustom ==
    /\ \A i \in DOMAIN lastOp.trace :
          lastOp.trace[i].func = "on_unload" =>
              \/ lastOp.op = "unload_plugin"
              \/ (lastOp.op = "broadcast_event"
                  /\ lastOp.event.kind = "Custom" /\ lastOp.event.name = "unload")
    /\ LoadCallsOnlyOnLoad

\* C30 witness: a load_all that replaced the interpreter of a registered
\* name by one whose on_load ran.
C30_Witness ==
    /\ lastOp.op = "load_all"
    /\ \E n \in DOMAIN lastOp.pre \cap DOMAIN plugins :
          /\ plugins[n].loader.sid # lastOp.pre[n].loader.sid
          /\ Defines(lastOp.pre[n].loader, "on_unload")
          /\ \E i \in DOMAIN lastOp.trace :
                lastOp.trace[i].sid = plugins[n].loader.sid /\ lastOp.trace[i].ran

\* The commands that have stored their asset and still hold the db lock.
JustCreated == {t \in Threads : cmd[t].op = "create_asset" /\ cmd[t].pc = "unlock_db"}

\* C24: right after create_asset(a) has stored a, whatever its type and
\* currency, get_asset(a.id) returns a record equal to a in id, name, asset
\* type, value, currency, description and tags, and list_assets contains
\* that record exactly once.
C24_CreateGetRoundTrip ==
    \A t \in JustCreated :
        /\ Database_get_asset(db, cmd[t].asset.id) = Some(cmd[t].asset)
        /\ Cardinality({i \in DOMAIN Database_list_assets(db) :
                           Database_list_assets(db)[i] = cmd[t].asset}) = 1

\* The threads between plugin_manager.lock() and the drop of its guard.
InRegistry == {t \in Threads : cmd[t].pc \in {"pm", "unlock_pm"}}

\* The threads inside load_plugin: on_load has been called, the entry is
\* not yet in the map.
HalfLoaded == {t \in Threads : cmd[t].pending.some}

\* C23: with commands running concurrently, a thread that is inside a
\* registry operation of the command layer (list, load_all, set_enabled,
\* broadcast) holds the plugin_manager lock from before the operation
\* until after it, no two threads are inside registry operations at once,
\* and while a load is between its hook and its insert no other thread
\* is at the registry.
C23_RegistryUnderLock ==
    /\ \A t \in InRegistry : pmLock = t
    /\ Cardinality(InRegistry) <= 1
    /\ \A t \in HalfLoaded : t \in InRegistry /\ InRegistry = {t}

\* A reload is between the on_load call and the insert of an entry while
\* the other thread, which has stored an asset, waits for the lock to
\* broadcast.
C23_Witness ==
    \E t \in HalfLoaded : \E u \in Threads \ {t} :
        /\ pmLock = t
        /\ cmd[u].pc = "lock_pm"
        /\ cmd[u].stored.some
        /\ cmd[t].pending.info.name \notin DOMAIN plugins

\* The threads that run create_asset, update_asset or delete_asset.
AssetCommands ==
    {t \in Threads : cmd[t].op \in {"create_asset", "update_asset", "delete_asset"}}

\* The one event of a command is of the kind of the command and carries
\* the argument of its storage call.
CarriesStored(c) ==
    /\ Len(c.sent) = 1
    /\ c.stored.some
    /\ CASE c.op = "create_asset" ->
              c.sent[1].kind = "AssetCreated" /\ c.sent[1].asset = c.stored.v
         [] c.op = "update_asset" ->
              c.sent[1].kind = "AssetUpdated" /\ c.sent[1].asset = c.stored.v
         [] c.op = "delete_asset" ->
              c.sent[1].kind = "AssetDeleted" /\ c.sent[1].id = c.stored.v

\* C27: a command of the asset kind has broadcast nothing before its
\* storage call has returned Ok; by its return a command that succeeded
\* has broadcast exactly one event, AssetCreated, AssetUpdated or
\* AssetDeleted after its kind, carrying the asset or id it stored; a
\* command whose storage call failed returns an error and has broadcast
\* nothing.
C27_BroadcastAfterStore ==
    \A t \in AssetCommands :
        /\ cmd[t].sent # <<>> => CarriesStored(cmd[t])
        /\ cmd[t].pc \in {"unlock_pm", "done"} /\ cmd[t].stored.some => CarriesStored(cmd[t])
        /\ cmd[t].pc = "done" =>
              /\ cmd[t].ret \in {"Ok", "Err"}
              /\ cmd[t].ret = "Ok" <=> cmd[t].stored.some
              /\ cmd[t].ret = "Err" => cmd[t].sent = <<>>

\* One command has returned Ok after it renamed the stored asset and
\* broadcast AssetUpdated with the renamed asset, the other has returned
\* an error from a storage call that failed.
C27_Witness ==
    \E t \in AssetCommands : \E u \in AssetCommands \ {t} :
        /\ cmd[t].pc = "done" /\ cmd[t].op = "update_asset" /\ cmd[t].ret = "Ok"
        /\ cmd[t].sent = <<AssetUpdated(cmd[t].asset)>>
        /\ cmd[t].asset.name = "gold"
        /\ cmd[u].pc = "done" /\ cmd[u].op = "delete_asset" /\ cmd[u].id = "u1"
        /\ cmd[u].ret = "Err" /\ cmd[u].sent = <<>>

\* The hooks of load_plugin and unload_plugin, and the handlers of the
\* events that are not Custom.
LifecycleHooks == {"on_load", "on_unload"}

BuiltinHandlers ==
    {"on_asset_created", "on_asset_updated", "on_asset_deleted",
     "on_app_started", "on_app_closing"}

\* A load calls on_load only, at most once in a session and only in
\* sessions it created; an unload calls on_unload only, once, in the
\* session it removed; set_plugin_enabled calls nothing.
LifecycleOncePerSession ==
    /\ lastOp.op \in {"load_plugin", "load_all"} =>
          \A i \in DOMAIN lastOp.trace :
              /\ lastOp.trace[i].func = "on_load"
              /\ lastOp.trace[i].sid \notin LiveSids(lastOp.pre)
              /\ \A j \in DOMAIN lastOp.trace :
                    lastOp.trace[j].sid = lastOp.trace[i].sid => j = i
    /\ lastOp.op = "unload_plugin" =>
          /\ Len(lastOp.trace) <= 1
          /\ \A i \in DOMAIN lastOp.trace :
                /\ lastOp.trace[i].func = "on_unload"
                /\ lastOp.trace[i].sid = lastOp.pre[lastOp.name].loader.sid
                /\ lastOp.trace[i].sid \notin LiveSids(plugins)
    /\ lastOp.op = "set_plugin_enabled" => lastOp.trace = <<>>

\* C31 as stated: on_load and on_unload are called only by load_plugin
\* and unload_plugin, at most once per session; no broadcast, whatever the
\* name of a Custom event, calls on_load or on_unload, and no Custom
\* event calls the handler of a built-in event.
C31_LifecycleNeverByBroadcast ==
    /\ LifecycleOncePerSession
    /\ lastOp.op = "broadcast_event" =>
          \A i \in DOMAIN lastOp.trace :
              /\ lastOp.trace[i].func \notin LifecycleHooks
              /\ lastOp.event.kind = "Custom" =>
                    lastOp.trace[i].func \notin BuiltinHandlers

\* C31 amended: load_plugin and unload_plugin call on_load and on_unload
\* at most once per session; the broadcast of a built-in event calls
\* neither; the broadcast of Custom(name, data) calls the function
\* on_<name> and no other, so it calls on_load, on_unload or a built-in
\* handler exactly when name spells that function without its on_ prefix.
C31_LifecycleOnlyByNameOfCustom ==
    /\ LifecycleOncePerSession
    /\ lastOp.op = "broadcast_event" =>
          \A i \in DOMAIN lastOp.trace :
              IF lastOp.event.kind = "Custom"
              THEN lastOp.trace[i].func = "on_" \o lastOp.event.name
              ELSE /\ lastOp.trace[i].func \in BuiltinHandlers
                   /\ lastOp.trace[i].func \notin LifecycleHooks

\* C31 witness: the broadcast of the custom event named load ran on_load
\* in a registered session, which the load of that session had called
\* before.
C31_Witness ==
    /\ lastOp.op = "broadcast_event"
    /\ lastOp.event = Custom("load", JsonText("x"))
    /\ \E i \in DOMAIN lastOp.trace :
          /\ lastOp.trace[i].func = "on_load"
          /\ lastOp.trace[i].ran
          /\ lastOp.trace[i].sid \in LiveSids(plugins)

\* The registry before the last call, with the named entry enabled.
PreEnabled == [lastOp.pre EXCEPT ![lastOp.name].info.enabled = TRUE]

\* C32: unload_plugin on a registered plugin whose enabled flag is false
\* returns ok, removes the entry and attempts on_unload once in its
\* session, with the same result, registry and call as the unload of
\* the same plugin enabled; the flag keeps a plugin out of broadcasts only.
C32_UnloadIgnoresEnabled ==
    /\ (lastOp.op = "unload_plugin" /\ lastOp.name \in DOMAIN lastOp.pre
         /\ ~lastOp.pre[lastOp.name].info.enabled) =>
           /\ lastOp.res = "Ok"
           /\ lastOp.name \notin DOMAIN plugins
           /\ Len(lastOp.trace) = 1
           /\ lastOp.trace[1].func = "on_unload"
           /\ lastOp.trace[1].sid = lastOp.pre[lastOp.name].loader.sid
           /\ lastOp.trace[1].ran = Defines(lastOp.pre[lastOp.name].loader, "on_unload")
           /\ lastOp.res = unload_plugin(PreEnabled, lastOp.name).res
           /\ plugins = unload_plugin(PreEnabled, lastOp.name).plugins
           /\ lastOp.trace = unload_plugin(PreEnabled, lastOp.name).trace
    /\ lastOp.op = "broadcast_event" =>
           \A n \in DOMAIN lastOp.pre : ~lastOp.pre[n].info.enabled =>
               CallsIn(lastOp.trace, lastOp.pre[n].loader.sid) = {}

\* C32 witness: the unload of a disabled plugin ran its on_unload and
\* removed its entry.
C32_Witness ==
    /\ lastOp.op = "unload_plugin"
    /\ lastOp.name \in DOMAIN lastOp.pre
    /\ ~lastOp.pre[lastOp.name].info.enabled
    /\ lastOp.name \notin DOMAIN plugins
    /\ lastOp.trace[1].ran

\* The threads that wait in lock() for a mutex another thread holds.
Blocked ==
    {t \in Threads : \/ cmd[t].pc = "lock_db" /\ dbLock # Free
                     \/ cmd[t].pc = "lock_pm" /\ pmLock # Free}

\* The threads with a command under way.
Running == {t \in Threads : cmd[t].pc \notin {"idle", "done"}}

\* No thread holds both mutexes, a thread that waits for the
\* plugin_manager holds nothing, and whoever holds a mutex is not waiting.
OneLockAtATime ==
    /\ \A t \in Threads : ~(dbLock = t /\ pmLock = t)
    /\ \A t \in Threads : cmd[t].pc = "lock_pm" => dbLock # t
    /\ \A t \in Blocked : dbLock # t /\ pmLock # t
    /\ Running # {} => Running \ Blocked # {}

C34_EventsInCommitOrder ==
    \A t \in AssetCommands :
        cmd[t].sent # <<>> => \A u \in cmd[t].after : cmd[u].sent # <<>>

====
